---- MODULE Spec2Model ----
(***************************************************************************)
(* Verification model of the phishing-URL detector: the SQLite feature     *)
(* cache (src/src/feature_cache.py), the network probes and the feature    *)
(* extractor (src/src/feature_extraction.py), the ensemble predictor       *)
(* (src/src/ensemble_predictor.py, src/src/validators.py), and check_url   *)
(* with its configuration and intelligence adjustment                      *)
(* (src/src/url_checker.py, src/src/config.py, src/src/security_intel.py). *)
(*                                                                         *)
(* Time is counted in whole hours.  `now` is the UTC wall clock, which is  *)
(* what SQLite's CURRENT_TIMESTAMP writes; `tz` is the UTC offset of the   *)
(* host, so that Python's naive datetime.now() reads now + tz.             *)
(***************************************************************************)
EXTENDS Integers, Sequences, FiniteSets, TLC

VARIABLES
    store,      \* table feature_cache: one row per url_hash (PRIMARY KEY)
    now,        \* UTC clock, hours
    tz,         \* UTC offset of the host's local time, hours
    storeOk,    \* TRUE while the SQLite file can be opened and queried
    cacheInst,  \* the module-level _cache singleton has been constructed
    lastOp,     \* the last FeatureCache call: arguments and return value
    wpc,        \* per worker: position inside its current cache call
    wop,        \* per worker: the call in progress and what it has read
    wn,         \* per worker: number of cache calls it has started
    lastCommit, \* per URL: check type and result of the set that committed last
    issued,     \* per URL and check type: the results handed to set so far
    probeCalls, \* per URL and probe: number of invocations so far
    lastProbe,  \* the last direct probe call: environment and outcome
    lastWrap,   \* the last cached_*_check call
    ext,        \* the extract_features call in progress
    lastExt,    \* the last URL handled by the extract_features loop
    lastPred,   \* the last finished prediction request and its result
    req,        \* the check_url request in progress
    modules,    \* the configured weights and which predictor modules are loaded
    frame,      \* the last frame extract_features returned, or its alignment
    limiter,    \* security_intel's _last_request_time, _request_count and clock
    loaded,     \* url_checker's _cached_models and the last load_models call
    enh         \* the last enhance_prediction call

vars == << store, now, tz, storeOk, cacheInst, lastOp, wpc, wop, wn, lastCommit,
           issued, probeCalls, lastProbe, lastWrap, ext, lastExt,
           lastPred, req, modules, frame, limiter, loaded, enh >>

cacheVars == << store, lastOp >>
workerVars == << wpc, wop, wn, lastCommit, issued >>
probeVars == << probeCalls, lastProbe, lastWrap, ext, lastExt >>
auxVars == << frame, limiter, loaded, enh >>
mainVars == << store, now, tz, storeOk, cacheInst, lastOp, workerVars, probeVars,
              lastPred, req, modules >>
predVars == << lastPred, req, modules, auxVars >>
restVars == << store, now, tz, storeOk, cacheInst, lastOp, workerVars, probeVars,
              auxVars >>

Range(s) == {s[i] : i \in DOMAIN s}

-----------------------------------------------------------------------------
(* Bounds of the model *)

MaxTime == 24
TickStep == 12
MaxAccess == 2
MaxCalls == 2
MaxOps == 2
MaxBatch == 2

(* Program constants *)

TTL_HOURS == 24

\* a URL is its scheme and the text after "://"
HttpsUrl == << "https", "a.example" >>
HttpUrl == << "http", "b.example" >>
URLs == {HttpsUrl, HttpUrl}
CheckTypes == {"dns", "ssl", "whois", "content"}
TzOffsets == {-12, 0, 12}
CacheTypes == {"dns", "ssl"}
Workers == {"w1", "w2"}
WorkerURLs == {HttpsUrl}

-----------------------------------------------------------------------------
(* Python values handed to the cache and the JSON text stored for them.    *)
(* A value is None or a container of one of the kinds below holding the   *)
(* sequence v of its items; a dict holds the values of its string keys in  *)
(* the fixed key order of its check type.                                  *)

PyNone == [kind |-> "none", v |-> << >>]
PyDict(items) == [kind |-> "dict", v |-> items]
PyList(items) == [kind |-> "list", v |-> items]
PyTuple(items) == [kind |-> "tuple", v |-> items]

JNull == [jkind |-> "null", v |-> << >>]

\* json.dumps: dicts become objects, lists and tuples both become arrays
JsonDumps(x) ==
    CASE x.kind = "dict" -> [jkind |-> "object", v |-> x.v]
      [] x.kind \in {"list", "tuple"} -> [jkind |-> "array", v |-> x.v]
      [] OTHER -> JNull

\* json.loads: objects become dicts, arrays become lists, null becomes None
JsonLoads(j) ==
    CASE j.jkind = "object" -> PyDict(j.v)
      [] j.jkind = "array" -> PyList(j.v)
      [] OTHER -> PyNone

Results == {PyDict(<< 1, 2 >>), PyTuple(<< 1, 2 >>), PyNone}

\* the probe records the concurrent workers store
WorkerResults == {PyDict(<< 1, 2 >>), PyDict(<< 0, 0 >>)}

-----------------------------------------------------------------------------
(* The feature_cache table *)

\* hashlib.md5(url).hexdigest(): distinct for the distinct URLs modelled
GetUrlHash(u) == << "md5", u >>

Hashes == {GetUrlHash(u) : u \in URLs}

NoRow == [present |-> FALSE, url |-> << >>, check_type |-> "", result |-> JNull,
          created_at |-> 0, accessed_at |-> 0, access_count |-> 0]

\* INSERT OR REPLACE ... VALUES (?, ?, ?, ?, CURRENT_TIMESTAMP, CURRENT_TIMESTAMP, 1)
NewRow(u, t, r, utc) ==
    [present |-> TRUE, url |-> u, check_type |-> t, result |-> JsonDumps(r),
     created_at |-> utc, accessed_at |-> utc, access_count |-> 1]

\* SELECT ... WHERE url_hash = ? AND check_type = ?
SelectRow(st, u, t) ==
    IF st[GetUrlHash(u)].present /\ st[GetUrlHash(u)].check_type = t
    THEN st[GetUrlHash(u)] ELSE NoRow

\* datetime.now(): naive local time
LocalNow(utc, off) == utc + off

\* age_hours = (datetime.now() - created_time).total_seconds() / 3600
AgeHours(row, utc, off) == LocalNow(utc, off) - row.created_at

\* a faulty variant of the freshness test: an entry whose age equals the TTL
\* still counts as fresh
IsFreshInclusive(row, utc, off) == AgeHours(row, utc, off) <= TTL_HOURS

\* the test `age_hours < self.ttl_hours` of get
IsFresh(row, utc, off) == AgeHours(row, utc, off) < TTL_HOURS

\* a faulty variant of UpdateAccess: the hit also renews created_at
UpdateAccessRenew(st, u, t, utc) ==
    IF SelectRow(st, u, t).present
    THEN [st EXCEPT ![GetUrlHash(u)].accessed_at = utc,
                    ![GetUrlHash(u)].created_at = utc,
                    ![GetUrlHash(u)].access_count = @ + 1]
    ELSE st

\* UPDATE ... SET accessed_at = CURRENT_TIMESTAMP, access_count = access_count + 1
\*   WHERE url_hash = ? AND check_type = ?
UpdateAccess(st, u, t, utc) ==
    IF SelectRow(st, u, t).present
    THEN [st EXCEPT ![GetUrlHash(u)].accessed_at = utc,
                    ![GetUrlHash(u)].access_count = @ + 1]
    ELSE st

\* DELETE FROM feature_cache WHERE url_hash = ? AND check_type = ?
DeleteRow(st, u, t) ==
    IF SelectRow(st, u, t).present
    THEN [st EXCEPT ![GetUrlHash(u)] = NoRow]
    ELSE st

\* INSERT OR REPLACE: url_hash alone is the PRIMARY KEY, so the row of the
\* URL is replaced whatever its check_type was
InsertOrReplace(st, u, t, r, utc) ==
    [st EXCEPT ![GetUrlHash(u)] = NewRow(u, t, r, utc)]

\* the value FeatureCache.get returns, given the row its SELECT fetched
GetReturn(row, utc, off) ==
    IF row.present /\ IsFresh(row, utc, off) THEN JsonLoads(row.result) ELSE PyNone

\* the table after FeatureCache.get, given the row its SELECT fetched
GetEffect(st, row, u, t, utc, off) ==
    IF ~row.present THEN st
    ELSE IF IsFresh(row, utc, off) THEN UpdateAccess(st, u, t, utc)
    ELSE DeleteRow(st, u, t)

\* cutoff_time = datetime.now() - timedelta(hours=self.ttl_hours)
CutoffTime(utc, off) == LocalNow(utc, off) - TTL_HOURS

\* DELETE FROM feature_cache WHERE created_at < ?
ExpiredHashes(st, utc, off) ==
    {h \in Hashes : st[h].present /\ st[h].created_at < CutoffTime(utc, off)}

NoOp == [op |-> "none", url |-> << >>, check_type |-> "", arg |-> PyNone,
         ret |-> PyNone, found |-> FALSE, fresh |-> FALSE, deleted |-> 0]

-----------------------------------------------------------------------------
(* FeatureCache operations, called one at a time *)

Get(u, t) ==
    LET row == SelectRow(store, u, t) IN
    /\ row.present /\ IsFresh(row, now, tz) => row.access_count < MaxAccess
    /\ store' = GetEffect(store, row, u, t, now, tz)
    /\ lastOp' = [op |-> "get", url |-> u, check_type |-> t, arg |-> PyNone,
                  ret |-> GetReturn(row, now, tz), found |-> row.present,
                  fresh |-> row.present /\ IsFresh(row, now, tz), deleted |-> 0]
    /\ UNCHANGED << now, tz, storeOk, cacheInst, workerVars, probeVars, predVars >>

Set(u, t, r) ==
    /\ store' = InsertOrReplace(store, u, t, r, now)
    /\ lastOp' = [op |-> "set", url |-> u, check_type |-> t, arg |-> r,
                  ret |-> PyNone, found |-> FALSE, fresh |-> FALSE, deleted |-> 0]
    /\ UNCHANGED << now, tz, storeOk, cacheInst, workerVars, probeVars, predVars >>

ClearExpired ==
    LET gone == ExpiredHashes(store, now, tz) IN
    /\ store' = [h \in Hashes |-> IF h \in gone THEN NoRow ELSE store[h]]
    /\ lastOp' = [NoOp EXCEPT !.op = "clear_expired",
                              !.deleted = Cardinality(gone)]
    /\ UNCHANGED << now, tz, storeOk, cacheInst, workerVars, probeVars, predVars >>

ClearAll ==
    /\ store' = [h \in Hashes |-> NoRow]
    /\ lastOp' = [NoOp EXCEPT !.op = "clear_all",
                              !.deleted = Cardinality({h \in Hashes : store[h].present})]
    /\ UNCHANGED << now, tz, storeOk, cacheInst, workerVars, probeVars, predVars >>

\* the wall clock advances
Tick ==
    /\ now + TickStep <= MaxTime
    /\ now' = now + TickStep
    /\ UNCHANGED << store, tz, storeOk, cacheInst, lastOp, workerVars, probeVars,
                    predVars >>

-----------------------------------------------------------------------------
(* The network probes of feature_extraction.py.  The network environment   *)
(* of a call is one of the named outcomes below.  A probe's outcome is     *)
(* either an exception leaving the function or the tuple it returns (a     *)
(* scalar return is written as a 1-tuple).                                 *)

Raised == [raised |-> TRUE, ret |-> << >>]
Returned(x) == [raised |-> FALSE, ret |-> x]

\* extract_domain: the host part of the URL, "" when there is none
ExtractDomain(u) == u[2]

\* url.startswith('https')
StartsWithHttps(u) == u[1] = "https"

\* max(0, n)
Max0(n) == IF n > 0 THEN n ELSE 0

\* a faulty variant of the handler below: the exception leaves the probe
ExceptPropagates(outcome, default) == outcome

\* the bare `except:` that closes each probe: whatever was raised inside the
\* try block is swallowed and the default is returned
ExceptReturn(outcome, default) ==
    IF outcome.raised THEN Returned(default) ELSE outcome

DnsEnvs == {"one_ip", "two_ips", "gaierror", "timeout", "malformed"}
DnsFailures == {"gaierror", "timeout", "malformed"}

\* the try block of check_dns_record
DnsBody(u, env) ==
    IF ExtractDomain(u) = "" THEN Returned(<< 0, 0 >>)
    ELSE IF env \in DnsFailures THEN Raised
    ELSE Returned(<< 1, IF env = "two_ips" THEN 2 ELSE 1 >>)

CheckDnsRecord(u, env) == ExceptReturn(DnsBody(u, env), << 0, 0 >>)

SslEnvs == {"trusted_90d", "no_issuer_90d", "expires_today", "no_not_after",
            "bad_date", "refused", "timeout"}
SslFailures == {"no_not_after", "bad_date", "refused", "timeout"}

\* (expire_date - datetime.now()).days
SslDaysLeft(env) == IF env = "expires_today" THEN -1 ELSE 90

\* the try block of check_ssl_certificate; a certificate without notAfter
\* falls through to the final return
SslBody(u, env) ==
    IF ExtractDomain(u) = "" \/ ~StartsWithHttps(u) THEN Returned(<< 0, 0, 0 >>)
    ELSE IF env \in {"refused", "timeout", "bad_date"} THEN Raised
    ELSE IF env = "no_not_after" THEN Returned(<< 0, 0, 0 >>)
    ELSE Returned(<< 1, Max0(SslDaysLeft(env)),
                     IF env = "no_issuer_90d" THEN 0 ELSE 1 >>)

CheckSslCertificate(u, env) == ExceptReturn(SslBody(u, env), << 0, 0, 0 >>)

WhoisEnvs == {"created_100d_ago", "created_in_future", "no_creation_date",
              "import_error", "lookup_error", "timeout"}
WhoisFailures == {"no_creation_date", "import_error", "lookup_error", "timeout"}

\* (datetime.now() - creation_date).days
WhoisAge(env) == IF env = "created_in_future" THEN -5 ELSE 100

\* the try block of get_domain_age_whois; a record without creation_date
\* falls through to the final return
WhoisBody(u, env) ==
    IF env = "import_error" THEN Raised
    ELSE IF ExtractDomain(u) = "" THEN Returned(<< -1 >>)
    ELSE IF env \in {"lookup_error", "timeout"} THEN Raised
    ELSE IF env = "no_creation_date" THEN Returned(<< -1 >>)
    ELSE Returned(<< Max0(WhoisAge(env)) >>)

GetDomainAgeWhois(u, env) == ExceptReturn(WhoisBody(u, env), << -1 >>)

ContentEnvs == {"login_page", "plain_page", "not_found", "conn_error", "timeout",
                "undecodable"}
ContentFailures == {"conn_error", "timeout", "undecodable"}

\* the HTTP response: status and what response.text.lower() holds
PageOf(env) ==
    CASE env = "login_page" ->
           [status |-> 200, forms |-> 1, inputs |-> 2, password |-> 1, links |-> 3,
            scripts |-> 1, iframe |-> 0, redirect |-> 0, login |-> 1, length |-> 4000]
      [] env = "plain_page" ->
           [status |-> 200, forms |-> 0, inputs |-> 0, password |-> 0, links |-> 250,
            scripts |-> 2, iframe |-> 1, redirect |-> 1, login |-> 0, length |-> 30000]
      [] OTHER ->
           [status |-> 404, forms |-> 1, inputs |-> 1, password |-> 0, links |-> 2,
            scripts |-> 1, iframe |-> 0, redirect |-> 0, login |-> 0, length |-> 900]

\* the try block of check_page_content: the body counts only when the status
\* is 200
ContentBody(u, env) ==
    LET page == PageOf(env)
        ok == page.status = 200
    IN  IF env \in ContentFailures THEN Raised
        ELSE Returned(<< page.status,
                         IF ok THEN page.forms ELSE 0,
                         IF ok THEN page.inputs ELSE 0,
                         IF ok THEN page.password ELSE 0,
                         IF ok THEN page.links ELSE 0,
                         IF ok THEN page.scripts ELSE 0,
                         IF ok THEN page.iframe ELSE 0,
                         IF ok THEN page.redirect ELSE 0 >>)

CheckPageContent(u, env) ==
    ExceptReturn(ContentBody(u, env), << 0, 0, 0, 0, 0, 0, 0, 0 >>)

\* min(10, len(content) / 10000 + num_links / 100), truncated by int()
PageRankEstimate(page) ==
    LET est == (page.length + 100 * page.links) \div 10000
    IN  IF est < 10 THEN est ELSE 10

\* fetch_page_content_features of feature_extraction_improved.py, the
\* five-value content probe that cached_content_check unpacks
FetchPageContentFeatures(u, env) ==
    LET page == PageOf(env)
    IN  IF env \in ContentFailures THEN Returned(<< 0, 0, 0, 0, 0 >>)
        ELSE Returned(<< page.status, page.forms, page.links, page.login,
                         PageRankEstimate(page) >>)

ProbeEnvs(p) ==
    CASE p = "dns" -> DnsEnvs [] p = "ssl" -> SslEnvs
      [] p = "whois" -> WhoisEnvs [] OTHER -> ContentEnvs

ProbeFailures(p) ==
    CASE p = "dns" -> DnsFailures [] p = "ssl" -> SslFailures
      [] p = "whois" -> WhoisFailures [] OTHER -> ContentFailures

\* the documented value a probe degrades to
ProbeDefault(p) ==
    CASE p = "dns" -> << 0, 0 >> [] p = "ssl" -> << 0, 0, 0 >>
      [] p = "whois" -> << -1 >> [] OTHER -> << 0, 0, 0, 0, 0, 0, 0, 0 >>

RunProbe(p, u, env) ==
    CASE p = "dns" -> CheckDnsRecord(u, env)
      [] p = "ssl" -> CheckSslCertificate(u, env)
      [] p = "whois" -> GetDomainAgeWhois(u, env)
      [] OTHER -> CheckPageContent(u, env)

\* URL texts without a host and one of a third scheme, for the probes' own
\* guards
NoHostUrl == << "http", "" >>
NoHostHttpsUrl == << "https", "" >>
FtpUrl == << "ftp", "c.example" >>
ProbeURLs == URLs \cup {NoHostUrl, NoHostHttpsUrl, FtpUrl}

NoProbe == [probe |-> "none", url |-> << >>, env |-> "none", raised |-> FALSE,
            ret |-> << >>]

\* one call of a probe function by a caller
ProbeCall(p, u, env) ==
    /\ lastProbe' = [probe |-> p, url |-> u, env |-> env,
                     raised |-> RunProbe(p, u, env).raised,
                     ret |-> RunProbe(p, u, env).ret]
    /\ UNCHANGED << store, now, tz, storeOk, cacheInst, lastOp, workerVars,
                    probeCalls, lastWrap, ext, lastExt, predVars >>

-----------------------------------------------------------------------------
(* extract_features: the per-URL loop over the batch.  The loop calls the  *)
(* probe functions directly; it does not go through the feature cache.     *)

\* the network columns as initialised before the loop
ZeroNet ==
    [has_dns |-> 0, dns_ip_count |-> 0, has_ssl |-> 0, ssl_days_valid |-> 0,
     ssl_trusted |-> 0, http_status |-> 0, num_forms |-> 0, num_inputs |-> 0,
     has_password_field |-> 0, num_page_links |-> 0, num_scripts |-> 0,
     has_iframe |-> 0, has_js_redirect |-> 0]

\* the environments the loop's probes meet: one success and one failure each
LoopDnsEnvs == {"two_ips", "gaierror"}
LoopSslEnvs == {"trusted_90d", "refused"}
LoopContentEnvs == {"login_page", "timeout"}

\* a cell of the url column that is not a string: the NaN pandas reads from
\* an empty CSV field
MissingUrl == << >>

Batches == UNION {[1..n -> URLs \cup {MissingUrl}] : n \in 1..MaxBatch}

ExtIdle == [pc |-> "idle", batch |-> << >>, idx |-> 0, feats |-> << >>]
NoExt == [url |-> << >>, called |-> << >>, net |-> ZeroNet, raised |-> FALSE]

\* a faulty variant of CallsContent: the content probe runs whatever the
\* DNS probe reported
CallsContentAlways(u, dns) == TRUE

\* `if has_dns:` and `if url.startswith('https'):` of the loop body
CallsSsl(u, dns) == dns.ret[1] # 0 /\ StartsWithHttps(u)
CallsContent(u, dns) == dns.ret[1] # 0

\* the probes one loop iteration invokes, in order
ProbesCalled(u, dns) ==
    << "dns" >> \o (IF CallsSsl(u, dns) THEN << "ssl" >> ELSE << >>)
               \o (IF CallsContent(u, dns) THEN << "content" >> ELSE << >>)

\* the network columns of the row after its loop iteration
NetRow(u, dns, ssl, content) ==
    LET r1 == [ZeroNet EXCEPT !.has_dns = dns.ret[1], !.dns_ip_count = dns.ret[2]]
        r2 == IF CallsSsl(u, dns)
              THEN [r1 EXCEPT !.has_ssl = ssl.ret[1], !.ssl_days_valid = ssl.ret[2],
                              !.ssl_trusted = ssl.ret[3]]
              ELSE r1
    IN  IF CallsContent(u, dns)
        THEN [r2 EXCEPT !.http_status = content.ret[1], !.num_forms = content.ret[2],
                        !.num_inputs = content.ret[3],
                        !.has_password_field = content.ret[4],
                        !.num_page_links = content.ret[5],
                        !.num_scripts = content.ret[6],
                        !.has_iframe = content.ret[7],
                        !.has_js_redirect = content.ret[8]]
        ELSE r2

\* extract_features(df) is entered: the lexical columns are computed and the
\* network columns are initialised to 0.  df['url'].apply(len) raises on a
\* cell that is not a string; the except branch applies len to the same
\* column again, so the exception leaves the function and no frame is
\* returned.
ExtractBegin(batch) ==
    /\ ext.pc \in {"idle", "done", "fallback", "raised"}
    /\ ext' = IF \E i \in 1..Len(batch) : batch[i] = MissingUrl
              THEN [pc |-> "raised", batch |-> batch, idx |-> 0, feats |-> << >>]
              ELSE [pc |-> "loop", batch |-> batch, idx |-> 1,
                    feats |-> [i \in 1..Len(batch) |-> ZeroNet]]
    /\ UNCHANGED << store, now, tz, storeOk, cacheInst, lastOp, workerVars,
                    probeCalls, lastProbe, lastWrap, lastExt, predVars >>

\* one iteration of `for idx in df.index`; an exception leaving a probe would
\* end the loop in the function's except branch
ExtractStep(dnsEnv, sslEnv, contentEnv) ==
    LET u == ext.batch[ext.idx]
        dns == CheckDnsRecord(u, dnsEnv)
        ssl == CheckSslCertificate(u, sslEnv)
        content == CheckPageContent(u, contentEnv)
        failed == \/ dns.raised
                  \/ ~dns.raised /\ CallsSsl(u, dns) /\ ssl.raised
                  \/ ~dns.raised /\ CallsContent(u, dns) /\ content.raised
        called == IF dns.raised THEN << "dns" >> ELSE ProbesCalled(u, dns)
    IN  /\ ext.pc = "loop" /\ ext.idx <= Len(ext.batch)
        /\ probeCalls[u]["dns"] < MaxCalls
        \* a probe that is not called meets no environment
        /\ (dns.raised \/ ~CallsSsl(u, dns)) => sslEnv = "trusted_90d"
        /\ (dns.raised \/ ~CallsContent(u, dns)) => contentEnv = "login_page"
        /\ probeCalls' = [probeCalls EXCEPT ![u] =
               [p \in CheckTypes |->
                   IF \E i \in 1..Len(called) : called[i] = p THEN @[p] + 1 ELSE @[p]]]
        /\ lastExt' = [url |-> u, called |-> called, raised |-> failed,
                       net |-> IF failed THEN ZeroNet ELSE NetRow(u, dns, ssl, content)]
        /\ ext' = IF failed THEN [ext EXCEPT !.pc = "fallback"]
                  ELSE [ext EXCEPT !.idx = @ + 1,
                                   !.feats[ext.idx] = NetRow(u, dns, ssl, content)]
        /\ UNCHANGED << store, now, tz, storeOk, cacheInst, lastOp, workerVars,
                        lastProbe, lastWrap, predVars >>

\* the loop is over: the frame is finalised and returned
ExtractFinish ==
    /\ ext.pc = "loop" /\ ext.idx > Len(ext.batch)
    /\ ext' = [ext EXCEPT !.pc = "done"]
    /\ UNCHANGED << store, now, tz, storeOk, cacheInst, lastOp, workerVars,
                    probeCalls, lastProbe, lastWrap, lastExt, predVars >>

-----------------------------------------------------------------------------
(* The cached_* wrappers of feature_cache.py around a probe function.  No  *)
(* caller in the repository goes through them; they are modelled with the  *)
(* probe each one is written for.  storeOk says whether the SQLite file    *)
(* can be opened and queried, cacheInst whether the module-level _cache    *)
(* has been constructed.                                                   *)

\* the check_function a wrapper is handed
WrapProbe(kind, u, env) ==
    CASE kind = "dns" -> CheckDnsRecord(u, env)
      [] kind = "ssl" -> CheckSslCertificate(u, env)
      [] kind = "whois" -> GetDomainAgeWhois(u, env)
      [] OTHER -> FetchPageContentFeatures(u, env)

\* the environments a wrapped probe meets: one success and one failure each
WrapEnvs(kind) ==
    CASE kind = "dns" -> LoopDnsEnvs [] kind = "ssl" -> LoopSslEnvs
      [] kind = "whois" -> {"created_100d_ago", "lookup_error"}
      [] OTHER -> LoopContentEnvs

\* the environment written for a probe that is not called
NoEnv(kind) ==
    CASE kind = "dns" -> "two_ips" [] kind = "ssl" -> "trusted_90d"
      [] kind = "whois" -> "created_100d_ago" [] OTHER -> "login_page"

NoWrap == [kind |-> "none", url |-> << >>, raised |-> FALSE, hit |-> FALSE,
           probed |-> FALSE, ret |-> << >>]

\* get_cache(): the first call constructs FeatureCache(), whose
\* _ensure_database opens the file; an exception there leaves _cache None
GetCacheRaises == ~cacheInst /\ ~storeOk

\* cached_dns_check / cached_ssl_check / cached_whois_check /
\* cached_content_check: get_cache, cache.get, on a miss the probe and
\* cache.set.  Nothing in the wrapper catches what the store raises.
CachedCheck(kind, u, env) ==
    LET row == SelectRow(store, u, kind)
        cached == GetReturn(row, now, tz)
        hit == cached # PyNone
        afterGet == GetEffect(store, row, u, kind, now, tz)
        probe == WrapProbe(kind, u, env)
        storeRaises == GetCacheRaises \/ ~storeOk
    IN  /\ row.present /\ IsFresh(row, now, tz) => row.access_count < MaxAccess
        /\ (storeRaises \/ hit) => env = NoEnv(kind)
        /\ cacheInst' = (cacheInst \/ storeOk)
        /\ store' = IF storeRaises THEN store
                    ELSE IF hit THEN afterGet
                    ELSE InsertOrReplace(afterGet, u, kind, PyDict(probe.ret), now)
        /\ lastWrap' = IF storeRaises
                       THEN [NoWrap EXCEPT !.kind = kind, !.url = u, !.raised = TRUE]
                       ELSE IF hit
                       THEN [NoWrap EXCEPT !.kind = kind, !.url = u, !.hit = TRUE,
                                           !.ret = cached.v]
                       ELSE [NoWrap EXCEPT !.kind = kind, !.url = u, !.probed = TRUE,
                                           !.ret = probe.ret]
        /\ UNCHANGED << now, tz, storeOk, lastOp, workerVars, probeCalls, lastProbe,
                        ext, lastExt, predVars >>

\* the cache file or its directory becomes unusable (locked, read-only,
\* corrupt, disk full)
StoreDown ==
    /\ storeOk
    /\ storeOk' = FALSE
    /\ UNCHANGED << store, now, tz, cacheInst, lastOp, workerVars, probeVars, predVars >>

StoreUp ==
    /\ ~storeOk
    /\ storeOk' = TRUE
    /\ UNCHANGED << store, now, tz, cacheInst, lastOp, workerVars, probeVars, predVars >>

-----------------------------------------------------------------------------
(* Configuration and module loading: config.py validates itself when it    *)
(* is imported; url_checker imports it inside `try ... except ImportError`  *)
(* with hard-coded fallbacks; ensemble_predictor never imports it.          *)
(* Weights are integers in hundredths.                                      *)

\* config.ENSEMBLE_WEIGHTS as shipped
ENSEMBLE_WEIGHTS == [dt |-> 30, xgb |-> 70]
\* the weights of url_checker's `except ImportError` branch
FALLBACK_WEIGHTS == [dt |-> 30, xgb |-> 70]
\* config.USE_ENSEMBLE
USE_ENSEMBLE == TRUE
\* config.PREDICTION_THRESHOLD = 0.5, in units of 1/1000000
PREDICTION_THRESHOLD == 500000
\* config.RISK_THRESHOLDS, in units of 1/1000000
RISK_THRESHOLDS == [low |-> 300000, medium |-> 700000, high |-> 700000]

\* the weights an operator may have written into config.py: the shipped
\* ones, a sum on the edge of the tolerance and a sum just outside it
ConfigWeights ==
    {ENSEMBLE_WEIGHTS, [dt |-> 31, xgb |-> 70], [dt |-> 32, xgb |-> 70]}

\* sum(ENSEMBLE_WEIGHTS.values())
WeightSum(w) == w.dt + w.xgb

\* validate_config: the errors list is non-empty, so ValueError is raised
\* (TEST_SIZE is left at its shipped, valid value)
ValidateConfigRaises(w) ==
    \/ ~(0 <= PREDICTION_THRESHOLD /\ PREDICTION_THRESHOLD <= 1000000)
    \/ USE_ENSEMBLE /\ ~(99 <= WeightSum(w) /\ WeightSum(w) <= 101)

NoModules == [weights |-> ENSEMBLE_WEIGHTS, checker |-> "unloaded",
              active |-> ENSEMBLE_WEIGHTS, predictor |-> "unloaded"]

\* the configuration file is edited before anything is imported
EditConfig(w) ==
    /\ modules.checker = "unloaded" /\ modules.predictor = "unloaded"
    /\ w # modules.weights
    /\ modules' = [modules EXCEPT !.weights = w]
    /\ UNCHANGED << restVars, lastPred, req >>

\* `import src.url_checker`: when its imports resolve, config.py runs
\* validate_config and a ValueError leaves the import; an ImportError
\* selects the fallback constants instead
ImportUrlChecker(resolves) ==
    /\ modules.checker = "unloaded"
    /\ modules' =
         IF ~resolves
         THEN [modules EXCEPT !.checker = "fallback", !.active = FALLBACK_WEIGHTS]
         ELSE IF ValidateConfigRaises(modules.weights)
         THEN [modules EXCEPT !.checker = "import_error"]
         ELSE [modules EXCEPT !.checker = "ready", !.active = modules.weights]
    /\ UNCHANGED << restVars, lastPred, req >>

\* EnsemblePredictor(): __init__ and load_models read no configuration
NewEnsemblePredictor ==
    /\ modules.predictor = "unloaded"
    /\ modules' = [modules EXCEPT !.predictor = "ready"]
    /\ UNCHANGED << restVars, lastPred, req >>

-----------------------------------------------------------------------------
(* A prediction request.  `run` is the bookkeeping of one check_url call:   *)
(* its arguments, the stages it passed (trace), the network I/O it has      *)
(* issued (io), the features it scores and the intermediate probabilities. *)

\* what extract_features hands back: the full feature frame, the four
\* columns of its except branch, or an exception
ExtractOutcomes == {"ok", "fallback", "raise"}
FeaturesOf(outcome) ==
    CASE outcome = "ok" -> "full" [] outcome = "fallback" -> "substitute"
      [] OTHER -> "failed"

ReqIdle ==
    [pc |-> "idle", url |-> << >>, kind |-> "none", threshold |-> 0,
     use_ensemble |-> FALSE, check_online |-> FALSE, trace |-> << >>, io |-> << >>,
     features |-> "none", names |-> FALSE, failed |-> {}, dt_prob |-> 0,
     xgb_prob |-> 0, ml_prob |-> 0, ml_pred |-> 0, prob |-> 0, pred |-> 0,
     intel |-> "none"]

-----------------------------------------------------------------------------
(* EnsemblePredictor.predict_single_url: majority vote of the decision     *)
(* tree, XGBoost and the security scanner.  A model is "missing" (its      *)
(* file was not loaded), raises while scoring ("raise"), or predicts       *)
(* "safe" / "phishing".                                                    *)

ModelOutcomes == {"missing", "raise", "safe", "phishing"}
ScanEnvs == {"flagged", "clean", "http_error", "conn_error"}

\* SECURITY_SCAN_KEY has a default value, so it is never None
ENABLE_SECURITY_SCAN == TRUE

ZeroScan == [malicious |-> 0, suspicious |-> 0, clean |-> 0, total |-> 0]

\* _perform_security_scan: the analysis statistics, or all zeros after a
\* non-200 answer or any exception
PerformSecurityScan(env) ==
    CASE env = "flagged" -> [malicious |-> 5, suspicious |-> 1, clean |-> 2, total |-> 8]
      [] env = "clean" -> [malicious |-> 0, suspicious |-> 0, clean |-> 7, total |-> 7]
      [] OTHER -> ZeroScan

\* check_url_with_security_scanner: checked is set whenever
\* _perform_security_scan returned
CheckUrlWithSecurityScanner(env) ==
    IF ~ENABLE_SECURITY_SCAN
    THEN [enabled |-> FALSE, checked |-> FALSE, malicious |-> 0, suspicious |-> 0,
          clean |-> 0, total_scans |-> 0]
    ELSE LET scan == PerformSecurityScan(env)
         IN  [enabled |-> TRUE, checked |-> TRUE, malicious |-> scan.malicious,
              suspicious |-> scan.suspicious, clean |-> scan.clean,
              total_scans |-> scan.total]

\* scan_pred = 1 if malicious > clean else 0
ScanPred(scan) == IF scan.malicious > scan.clean THEN 1 ELSE 0

PredOf(outcome) == IF outcome = "phishing" THEN 1 ELSE 0
LabelOf(pred) == IF pred = 1 THEN "Phishing" ELSE "Safe"

\* the entry a model leaves in the result
ModelEntry(outcome) ==
    CASE outcome = "missing" -> "None"
      [] outcome = "raise" -> "error"
      [] OTHER -> LabelOf(PredOf(outcome))

\* votes, in the order the method appends them
ModelVotes(outcome) ==
    IF outcome \in {"safe", "phishing"} THEN << PredOf(outcome) >> ELSE << >>

ScanVotes(useScan, env) ==
    IF useScan /\ CheckUrlWithSecurityScanner(env).checked
    THEN << ScanPred(CheckUrlWithSecurityScanner(env)) >> ELSE << >>

Votes(dt, xgb, useScan, env) ==
    ModelVotes(dt) \o ModelVotes(xgb) \o ScanVotes(useScan, env)

RECURSIVE SumSeq(_)
SumSeq(s) == IF s = << >> THEN 0 ELSE Head(s) + SumSeq(Tail(s))

MaxOf(a, b) == IF a > b THEN a ELSE b

\* the sources that actually scored the URL: a model whose predict
\* returned, the scanner when it delivered an analysis
ScoredSources(dt, xgb, useScan, env) ==
    (IF dt \in {"safe", "phishing"} THEN {"decision_tree"} ELSE {})
    \cup (IF xgb \in {"safe", "phishing"} THEN {"xgboost"} ELSE {})
    \cup (IF useScan /\ env \in {"flagged", "clean"} THEN {"security_scan"} ELSE {})

NoResult ==
    [decision_tree |-> "None", xgboost |-> "None", security_scan |-> "None",
     ensemble_prediction |-> "None", ensemble_confidence |-> << 0, 1 >>,
     error |-> "", total_votes |-> 0]

\* the `if len(votes) >= 2` block; ensemble_confidence is kept as the
\* fraction << 100 * max(phishing, safe), len(votes) >>
EnsembleDecision(res, votes) ==
    LET phishing == SumSeq(votes)
        safe == Len(votes) - phishing
    IN  IF Len(votes) >= 2
        THEN [res EXCEPT !.ensemble_prediction =
                              LabelOf(IF phishing > safe THEN 1 ELSE 0),
                         !.ensemble_confidence =
                              << 100 * MaxOf(phishing, safe), Len(votes) >>,
                         !.total_votes = Len(votes)]
        ELSE [res EXCEPT !.error = "Insufficient predictions for ensemble"]

\* no prediction request has finished yet
NoPred == [op |-> "none", url |-> << >>, failed |-> {}, scored |-> {},
           run |-> ReqIdle, result |-> NoResult]

\* featOk: extract_features returned a frame, whichever it is
PredictSingleUrlResult(featOk, dt, xgb, useScan, env) ==
    IF ~featOk THEN [NoResult EXCEPT !.error = "feature extraction"]
    ELSE EnsembleDecision(
           [NoResult EXCEPT
              !.decision_tree = ModelEntry(dt),
              !.xgboost = ModelEntry(xgb),
              !.security_scan =
                  IF ~useScan THEN "None"
                  ELSE IF CheckUrlWithSecurityScanner(env).checked
                  THEN LabelOf(ScanPred(CheckUrlWithSecurityScanner(env)))
                  ELSE "error"],
           Votes(dt, xgb, useScan, env))

PredictSingleUrl(u, feat, dt, xgb, useScan, env) ==
    LET featOk == feat # "raise"
    IN  /\ modules.predictor = "ready"
        /\ req.pc = "idle"
        /\ lastPred' = [op |-> "predict_single_url", url |-> u,
                        failed |-> IF featOk
                                   THEN {m \in {"dt", "xgb"} :
                                            (IF m = "dt" THEN dt ELSE xgb) = "raise"}
                                   ELSE {},
                        scored |-> IF featOk THEN ScoredSources(dt, xgb, useScan, env)
                                   ELSE {},
                        run |-> [ReqIdle EXCEPT !.url = u, !.features = FeaturesOf(feat)],
                        result |-> PredictSingleUrlResult(featOk, dt, xgb, useScan, env)]
        /\ UNCHANGED << restVars, req, modules >>

-----------------------------------------------------------------------------
(* check_url of url_checker.py: the weighted two-model verdict.            *)
(* Probabilities are integers in units of 1/1000000; the probabilities a   *)
(* verdict carries are rounded to 4 decimals, units of 1/10000.            *)

UrlKinds == {"valid", "malformed", "empty", "not_str"}
LoadOutcomes == {"ok", "ok_no_names", "not_found", "load_error"}
\* what predict_proba(features)[0][1] gives: an exception or a probability
ScoreRaised == [raised |-> TRUE, prob |-> 0]
Scored(p) == [raised |-> FALSE, prob |-> p]
ScoreOutcomes ==
    {ScoreRaised} \cup {Scored(p) : p \in {100000, 500000, 500100, 900000}}
\* no API key; the lookup timed out; the service answered 404; it reported
\* the URL as flagged or as clean
IntelEnvs == {"no_key", "timeout", "not_in_database", "flagged", "clean"}
\* the threshold argument: None, or a value of the caller
ThresholdArgs ==
    {[given |-> FALSE, value |-> 0], [given |-> TRUE, value |-> 300000],
     [given |-> TRUE, value |-> 700000]}

\* check_url_virustotal: the report of the intelligence service
IntelReport(env) ==
    CASE env = "flagged" ->
           [available |-> TRUE, malicious |-> 8, suspicious |-> 0, total |-> 10,
            reputation |-> -100]
      [] env = "clean" ->
           [available |-> TRUE, malicious |-> 0, suspicious |-> 0, total |-> 10,
            reputation |-> 100]
      [] OTHER ->
           [available |-> FALSE, malicious |-> 0, suspicious |-> 0, total |-> 0,
            reputation |-> 0]

\* a faulty variant of EnhancedProb: a missing report is blended in as a
\* score of zero
EnhancedProbAlways(env, mlProb) ==
    IF IntelReport(env).available /\ IntelReport(env).malicious >= 5
    THEN (mlProb * 50 + 860000 * 50) \div 100
    ELSE (mlProb * 85) \div 100

\* enhance_prediction on the report vt_result: the adjusted probability
AdjustedProb(vt, mlProb) ==
    LET vtScore == IF vt.total = 0 THEN 0
                   ELSE ((2 * vt.malicious + vt.suspicious) * 1000000) \div (2 * vt.total)
        repScore == Max0((100 - vt.reputation) * 5000)
        vtFinal == (vtScore * 7 + repScore * 3) \div 10
    IN  IF ~vt.available THEN mlProb
        ELSE IF vt.malicious >= 5 \/ vt.reputation < -50
        THEN (mlProb * 50 + vtFinal * 50) \div 100
        ELSE IF vt.malicious >= 2 \/ vt.reputation < -20
        THEN (mlProb * 70 + vtFinal * 30) \div 100
        ELSE (mlProb * 85 + vtFinal * 15) \div 100

\* enhance_prediction in the environment env
EnhancedProb(env, mlProb) == AdjustedProb(IntelReport(env), mlProb)

\* enhance_prediction: the adjusted label, `1 if adjusted_prob > 0.5 else 0`
EnhancedPred(env, mlPred, mlProb) ==
    IF ~IntelReport(env).available THEN mlPred
    ELSE IF EnhancedProb(env, mlProb) > 500000 THEN 1 ELSE 0

Thresholded(prob, threshold) == IF prob > threshold THEN 1 ELSE 0

\* a faulty variant of EnsembleProb: the weights are ignored
EnsembleProbUnweighted(dtProb, xgbProb, useEnsemble, w) == (dtProb + xgbProb) \div 2

\* the weighted average, or the plain mean when use_ensemble is off
EnsembleProb(dtProb, xgbProb, useEnsemble, w) ==
    IF useEnsemble
    THEN (dtProb * w.dt + xgbProb * w.xgb) \div 100
    ELSE (dtProb + xgbProb) \div 2

\* a faulty variant of RiskLevel: the boundaries belong to the lower tier
RiskLevelInclusive(prob) ==
    IF prob <= RISK_THRESHOLDS.low THEN "low"
    ELSE IF prob <= RISK_THRESHOLDS.medium THEN "medium"
    ELSE "high"

RiskLevel(prob) ==
    IF prob < RISK_THRESHOLDS.low THEN "low"
    ELSE IF prob < RISK_THRESHOLDS.medium THEN "medium"
    ELSE "high"

\* the order of the branches: low < medium < high
TierRank(tier) == CASE tier = "low" -> 0 [] tier = "medium" -> 1 [] OTHER -> 2

AbsDiff(a, b) == IF a > b THEN a - b ELSE b - a

ConfidenceLevel(prob, threshold) ==
    LET c == AbsDiff(prob, threshold)
    IN  IF c < 100000 THEN "very_low"
        ELSE IF c < 200000 THEN "low"
        ELSE IF c < 300000 THEN "medium"
        ELSE IF c < 400000 THEN "high"
        ELSE "very_high"

PredictionName(pred) == IF pred = 1 THEN "phishing" ELSE "legitimate"

\* round(x, 4): from units of 1/1000000 to units of 1/10000
Round4(p) == (p + 50) \div 100

\* an exception raised inside check_url's try block
Exc(type, msg) == [type |-> type, msg |-> msg]

\* a faulty variant of Caught: the exception leaves check_url
Uncaught(exc) == [raised |-> exc.type]

\* the three except branches of check_url and the dictionary each returns
Caught(exc) ==
    [decision_tree |-> -1, xgboost |-> -1, ensemble |-> -1, dt_probability |-> 0,
     xgb_probability |-> 0, ensemble_probability |-> 0, error |-> exc.msg,
     error_type |-> CASE exc.type = "FileNotFoundError" -> "ModelNotFound"
                      [] exc.type = "ValueError" -> "InvalidInput"
                      [] OTHER -> "GeneralError"]

\* the stages of a request, in the order the try block passes them
StageRank(stage) ==
    CASE stage = "INIT" -> 0 [] stage = "FEATURES_READY" -> 1
      [] stage = "MODELS_SCORED" -> 2 [] stage = "INTEL_ADJUSTED" -> 3
      [] OTHER -> 4

\* a faulty variant of VerdictResult: the tiers are taken from the
\* probability before the adjustment
VerdictResultPreIntel(r) ==
    [url |-> r.url,
     prediction |-> PredictionName(r.pred),
     probability |-> Round4(r.prob),
     risk_level |-> RiskLevel(r.ml_prob),
     confidence |-> ConfidenceLevel(r.ml_prob, r.threshold),
     online_status |-> [checked |-> r.check_online],
     models |-> [decision_tree |->
                     [prediction |-> PredictionName(Thresholded(r.dt_prob, r.threshold)),
                      probability |-> Round4(r.dt_prob)],
                 xgboost |->
                     [prediction |-> PredictionName(Thresholded(r.xgb_prob, r.threshold)),
                      probability |-> Round4(r.xgb_prob)]],
     threshold |-> r.threshold,
     processing_time |-> 0]

\* the dictionary a completed request returns
VerdictResult(r) ==
    [url |-> r.url,
     prediction |-> PredictionName(r.pred),
     probability |-> Round4(r.prob),
     risk_level |-> RiskLevel(r.prob),
     confidence |-> ConfidenceLevel(r.prob, r.threshold),
     online_status |-> [checked |-> r.check_online],
     models |-> [decision_tree |->
                     [prediction |-> PredictionName(Thresholded(r.dt_prob, r.threshold)),
                      probability |-> Round4(r.dt_prob)],
                 xgboost |->
                     [prediction |-> PredictionName(Thresholded(r.xgb_prob, r.threshold)),
                      probability |-> Round4(r.xgb_prob)]],
     threshold |-> r.threshold,
     processing_time |-> 0]

\* check_url returns `result`: the request is over
Return(r, result) ==
    /\ lastPred' = [op |-> "check_url", url |-> r.url, failed |-> r.failed,
                    scored |-> IF "MODELS_SCORED" \in Range(r.trace)
                               THEN {"decision_tree", "xgboost"} ELSE {},
                    run |-> r, result |-> result]
    /\ req' = ReqIdle
    /\ UNCHANGED << restVars, modules >>

\* an exception raised at the current stage reaches the except clauses
Raise(r, exc) == Return(r, Caught(exc))

\* the request moves on to its next stage
Goto(r) ==
    /\ req' = r
    /\ UNCHANGED << restVars, modules, lastPred >>

\* check_url is called; `threshold is None` selects PREDICTION_THRESHOLD
CheckUrlBegin(u, urlKind, thr, useEnsemble, checkOnline) ==
    /\ req.pc = "idle"
    /\ modules.checker \in {"ready", "fallback"}
    /\ req' = [ReqIdle EXCEPT
                 !.pc = "INIT", !.url = u, !.kind = urlKind,
                 !.threshold = IF thr.given THEN thr.value ELSE PREDICTION_THRESHOLD,
                 !.use_ensemble = useEnsemble, !.check_online = checkOnline,
                 !.trace = << "INIT" >>]
    /\ lastPred' = NoPred
    /\ UNCHANGED << restVars, modules >>

\* `if check_online: online_status = check_url_exists_online(url)`, the
\* first statement of the try block: a DNS lookup and an HTTP HEAD request.
\* A non-string fails on url.startswith before either, and the handler of
\* check_url_exists_online then reads the unbound has_dns.
OnlineCheck ==
    /\ req.pc = "INIT"
    /\ req.check_online
    /\ IF req.kind = "not_str"
       THEN Raise(req, Exc("UnboundLocalError", "has_dns"))
       ELSE Goto([req EXCEPT !.pc = "ONLINE_CHECKED",
                             !.io = @ \o (IF req.kind = "empty" THEN << >>
                                          ELSE << "dns_lookup", "http_head" >>)])

\* validate_url_format, or the basic validation of the fallback mode, which
\* rejects only an empty or non-string URL
ValidateUrl ==
    /\ req.pc = IF req.check_online THEN "ONLINE_CHECKED" ELSE "INIT"
    /\ IF \/ req.kind = "valid"
          \/ req.kind = "malformed" /\ modules.checker = "fallback"
       THEN Goto([req EXCEPT !.pc = "VALIDATED"])
       ELSE Raise(req, Exc("ValueError", "Invalid URL"))

\* extract_features(df): only an exception of extract_features itself is
\* turned into "Feature extraction failed"
ExtractStage(outcome) ==
    /\ req.pc = "VALIDATED"
    /\ IF outcome = "raise"
       THEN Raise([req EXCEPT !.features = FeaturesOf(outcome)],
                  Exc("Exception", "Feature extraction failed"))
       ELSE Goto([req EXCEPT !.pc = "FEATURES_READY",
                             !.features = FeaturesOf(outcome),
                             !.io = @ \o (IF outcome = "ok" THEN << "probes" >>
                                          ELSE << >>),
                             !.trace = Append(@, "FEATURES_READY")])

\* load_models, then the zero-filling of the columns named by feature_names
\* (loaded only when USE_ADVANCED_FEATURES is on)
LoadModels(load) ==
    /\ req.pc = "FEATURES_READY"
    /\ CASE load = "not_found" ->
              Raise(req, Exc("FileNotFoundError", "Model files not found"))
         [] load = "load_error" ->
              Raise(req, Exc("Exception", "Error loading models"))
         [] OTHER ->
              Goto([req EXCEPT !.pc = "MODELS_LOADED",
                               !.names = (load = "ok" /\ modules.checker = "ready")])

\* both predict_proba calls, the per-model labels and the combination.
\* The decision tree is asked first; when it raises XGBoost is never asked.
\* Substitute features that were not completed to the trained columns are
\* refused by the models.
ScoreModels(dt, xgb) ==
    /\ req.pc = "MODELS_LOADED"
    /\ dt.raised => xgb = ScoreRaised
    /\ (req.features = "substitute" /\ ~req.names) => dt.raised
    /\ IF dt.raised \/ xgb.raised
       THEN Raise([req EXCEPT !.failed = IF dt.raised THEN {"dt"} ELSE {"xgb"}],
                  Exc("Exception", "Prediction failed"))
       ELSE LET p == EnsembleProb(dt.prob, xgb.prob, req.use_ensemble, modules.active)
            IN  Goto([req EXCEPT !.pc = "MODELS_SCORED",
                                 !.dt_prob = dt.prob, !.xgb_prob = xgb.prob,
                                 !.ml_prob = p, !.prob = p,
                                 !.ml_pred = Thresholded(p, req.threshold),
                                 !.pred = Thresholded(p, req.threshold),
                                 !.trace = Append(@, "MODELS_SCORED")])

\* `if USE_SECURITY_INTEL and vt_available() and enhance_prediction`: the
\* fallback mode has no intelligence module
IntelStage(intel) ==
    /\ req.pc = "MODELS_SCORED"
    /\ modules.checker = "fallback" => intel = "no_key"
    /\ Goto([req EXCEPT
               !.pc = "PRE_VERDICT",
               !.intel = intel,
               !.prob = EnhancedProb(intel, req.ml_prob),
               !.pred = EnhancedPred(intel, req.ml_pred, req.ml_prob),
               !.io = @ \o (IF intel = "no_key" THEN << >> ELSE << "intel_lookup" >>),
               !.trace = IF IntelReport(intel).available
                         THEN Append(@, "INTEL_ADJUSTED") ELSE @])

\* risk level, confidence and the result dictionary
Verdict ==
    /\ req.pc = "PRE_VERDICT"
    /\ LET r == [req EXCEPT !.pc = "VERDICT", !.trace = Append(@, "VERDICT")]
       IN  Return(r, VerdictResult(r))

-----------------------------------------------------------------------------
(* The frame extract_features returns for one URL and its alignment to the  *)
(* trained feature names.  A frame is the sequence of its columns in        *)
(* DataFrame order; a cell is a number, a string or NaN.                    *)

Num(n) == [kind |-> "num", v |-> n]
Str == [kind |-> "str", v |-> 0]
NaN == [kind |-> "nan", v |-> 0]
Col(name, val) == [name |-> name, val |-> val]

ColNames(cols) == [i \in DOMAIN cols |-> cols[i].name]
HasCol(cols, name) == \E i \in DOMAIN cols : cols[i].name = name
ColVal(cols, name) == cols[CHOOSE i \in DOMAIN cols : cols[i].name = name].val

\* df[name] = val: an existing column is overwritten in place, a new one is
\* appended
SetCol(cols, name, val) ==
    IF HasCol(cols, name)
    THEN [i \in DOMAIN cols |-> IF cols[i].name = name THEN Col(name, val) ELSE cols[i]]
    ELSE Append(cols, Col(name, val))

RECURSIVE DropCols(_, _)
DropCols(cols, names) ==
    IF cols = << >> THEN << >>
    ELSE IF Head(cols).name \in names THEN DropCols(Tail(cols), names)
    ELSE << Head(cols) >> \o DropCols(Tail(cols), names)

\* pd.to_numeric(col, errors='coerce').fillna(0)
ToNumeric(val) == IF val.kind = "num" THEN val ELSE Num(0)

\* the URL texts: an ordinary URL and the empty string, for which
\* special_char_count / url_length is 0 / 0
UrlTexts == {"plain", "empty"}
\* the block of the try body in which an exception is raised, if any
FailPoints == {"none", "ratios", "domain", "loop", "finalize"}
DnsAnswers == {0, 1}

\* the columns each block of the try body adds to df, in order
LexicalCols(text) ==
    << Col("url_length", Num(IF text = "empty" THEN 0 ELSE 17)),
       Col("num_dots", Num(IF text = "empty" THEN 0 ELSE 1)) >>
RatioCols(text) ==
    << Col("url_entropy", Num(IF text = "empty" THEN 0 ELSE 3)),
       Col("special_char_ratio", IF text = "empty" THEN NaN ELSE Num(1)) >>
DomainCols(text) ==
    << Col("domain", Str), Col("tld", Str),
       Col("is_https", Num(IF text = "empty" THEN 0 ELSE 1)) >>
NetworkCols(dns) ==
    << Col("has_dns", Num(dns)), Col("http_status", Num(200 * dns)) >>

\* df as the try body has left it when the exception is raised
ColsBefore(text, failAt, dns) ==
    << Col("url", Str), Col("label", Num(0)) >>
    \o LexicalCols(text)
    \o (IF failAt = "ratios" THEN << >> ELSE RatioCols(text))
    \o (IF failAt \in {"ratios", "domain"} THEN << >> ELSE DomainCols(text))
    \o (CASE failAt \in {"ratios", "domain"} -> << >>
          [] failAt = "loop" -> NetworkCols(0)
          [] OTHER -> NetworkCols(dns))

\* the finalisation: domain and tld are dropped and every column other than
\* url and label is coerced
Finalize(cols) ==
    LET kept == DropCols(cols, {"domain", "tld"})
    IN  [i \in DOMAIN kept |->
            IF kept[i].name \in {"url", "label"} THEN kept[i]
            ELSE Col(kept[i].name, ToNumeric(kept[i].val))]

\* the except branch: basic_df = df.copy(), the four basic columns are set
\* and coerced; no other column is touched
Fallback(cols, text) ==
    LET c1 == SetCol(cols, "url_length", ToNumeric(Num(IF text = "empty" THEN 0 ELSE 17)))
        c2 == SetCol(c1, "num_dots", ToNumeric(Num(IF text = "empty" THEN 0 ELSE 1)))
        c3 == SetCol(c2, "is_https", ToNumeric(Num(IF text = "empty" THEN 0 ELSE 1)))
    IN  SetCol(c3, "url_entropy", ToNumeric(Num(IF text = "empty" THEN 0 ELSE 3)))

ExtractFeaturesFrame(text, failAt, dns) ==
    IF failAt = "none" THEN Finalize(ColsBefore(text, failAt, dns))
    ELSE Fallback(ColsBefore(text, failAt, dns), text)

\* feature_names.pkl as training saved it: the present extractor's columns,
\* the columns of an extractor that also computed domain_age_days, and a
\* list in another order; << >> stands for no list (None or empty)
Registries ==
    {<< >>,
     << "url_length", "num_dots", "url_entropy", "special_char_ratio", "is_https",
        "has_dns", "http_status" >>,
     << "url_length", "num_dots", "is_https", "has_dns", "domain_age_days" >>,
     << "has_dns", "url_length", "url_entropy" >>}

\* a faulty variant of AlignTo: the frame's columns that the list names, in
\* the frame's order
AlignToFrameOrder(cols, names) ==
    DropCols(cols, {cols[i].name : i \in DOMAIN cols} \ Range(names))

\* `for col in feature_names: if col not in df.columns: df[col] = 0`, then
\* `df[feature_names]`
AlignTo(cols, names) ==
    [i \in DOMAIN names |->
        Col(names[i], IF HasCol(cols, names[i]) THEN ColVal(cols, names[i]) ELSE Num(0))]

\* check_url: with no list, every column other than url and label
FeatureVectorCheckUrl(cols, names) ==
    IF names # << >> THEN AlignTo(cols, names)
    ELSE DropCols(cols, {"url", "label"})

\* predict_single_url: label is dropped first; with no list the frame is
\* handed on as it is
FeatureVectorPredictor(cols, names) ==
    IF names # << >> THEN AlignTo(DropCols(cols, {"label"}), names)
    ELSE DropCols(cols, {"label"})

NoFrame == [op |-> "none", text |-> "", failAt |-> "", cols |-> << >>,
            names |-> << >>, vector |-> << >>]

\* extract_features(df) on a frame of one URL returns
ExtractFrame(text, failAt, dns) ==
    /\ frame' = [NoFrame EXCEPT !.op = "extract", !.text = text, !.failAt = failAt,
                                !.cols = ExtractFeaturesFrame(text, failAt, dns)]
    /\ UNCHANGED << mainVars, limiter, loaded, enh >>

\* a caller builds the vector it hands to the classifiers
AlignFrame(caller, names) ==
    /\ frame.op = "extract"
    /\ frame' = [frame EXCEPT
                   !.op = caller, !.names = names,
                   !.vector = IF caller = "check_url"
                              THEN FeatureVectorCheckUrl(frame.cols, names)
                              ELSE FeatureVectorPredictor(frame.cols, names)]
    /\ UNCHANGED << mainVars, limiter, loaded, enh >>

-----------------------------------------------------------------------------
(* security_intel._rate_limit: the module keeps the start of the current    *)
(* minute and the number of requests counted in it.  Time is in seconds;    *)
(* time.sleep advances the clock by the time slept.                         *)

RATE_WINDOW == 60
RATE_LIMIT == 4

\* seconds between two readings of the clock, the latest clock reading and
\* the number of requests followed
ClockStep == 30
MaxClock == 240
MaxSent == 6

\* _last_request_time = 0, _request_count = 0; time.time() is far beyond 60
NoLimiter == [clock |-> RATE_WINDOW + ClockStep, last_request_time |-> 0,
              request_count |-> 0, sent |-> << >>]

\* the state _rate_limit() leaves; sent records when each call returned
RateLimitResult(l) ==
    LET current_time == l.clock
        reset == current_time - l.last_request_time > RATE_WINDOW
        last1 == IF reset THEN current_time ELSE l.last_request_time
        count1 == IF reset THEN 0 ELSE l.request_count
        wait_time == RATE_WINDOW - (current_time - last1)
        sleeps == count1 >= RATE_LIMIT /\ wait_time > 0
        woke == IF sleeps THEN current_time + wait_time + 1 ELSE current_time
    IN  [clock |-> woke,
         last_request_time |-> IF sleeps THEN woke ELSE last1,
         request_count |-> (IF sleeps THEN 0 ELSE count1) + 1,
         sent |-> Append(l.sent, woke)]

\* one call of _rate_limit(), after which the caller sends its request
RateLimit ==
    /\ Len(limiter.sent) < MaxSent
    /\ RateLimitResult(limiter).clock <= MaxClock
    /\ limiter' = RateLimitResult(limiter)
    /\ UNCHANGED << mainVars, frame, loaded, enh >>

\* time passes between two calls
ClockTick ==
    /\ limiter.clock + ClockStep <= MaxClock
    /\ limiter' = [limiter EXCEPT !.clock = @ + ClockStep]
    /\ UNCHANGED << mainVars, frame, loaded, enh >>

-----------------------------------------------------------------------------
(* url_checker.load_models and its module-level _cached_models.  An object *)
(* joblib.load returns is named by the number of the load_models call that *)
(* read it from disk; 0 stands for None.                                   *)

MaxLoadCalls == 4

NoLoadRet == [kind |-> "none", dt |-> 0, xgb |-> 0, features |-> 0]

\* _cached_models = {'dt': None, 'xgb': None, 'features': None}; ok_ret is
\* what the first call that returned has returned
NoLoaded == [dt |-> 0, xgb |-> 0, features |-> 0, calls |-> 0,
             load |-> "", read_disk |-> FALSE, ret |-> NoLoadRet, ok_ret |-> NoLoadRet]

\* all(v is not None for v in _cached_models.values())
CacheComplete(l) == l.dt # 0 /\ l.xgb # 0 /\ l.features # 0

\* one load_models() call: load is what the model files on disk are like,
\* advanced whether USE_ADVANCED_FEATURES is set
LoadModelsResult(l, load, advanced) ==
    LET n == l.calls + 1
        names == IF advanced /\ load = "ok" THEN n ELSE 0
        called == [l EXCEPT !.calls = n, !.load = load]
    IN  IF CacheComplete(l)
        THEN [called EXCEPT !.read_disk = FALSE,
                            !.ret = [kind |-> "return", dt |-> l.dt, xgb |-> l.xgb,
                                     features |-> l.features]]
        ELSE IF load = "not_found"
        THEN [called EXCEPT !.read_disk = TRUE,
                            !.ret = [NoLoadRet EXCEPT !.kind = "FileNotFoundError"]]
        ELSE IF load = "load_error"
        THEN [called EXCEPT !.read_disk = TRUE,
                            !.ret = [NoLoadRet EXCEPT !.kind = "Exception"]]
        ELSE [called EXCEPT !.dt = n, !.xgb = n, !.features = names,
                            !.read_disk = TRUE,
                            !.ret = [kind |-> "return", dt |-> n, xgb |-> n,
                                     features |-> names]]

LoadModelsCall(load, advanced) ==
    /\ loaded.calls < MaxLoadCalls
    /\ loaded' = [LoadModelsResult(loaded, load, advanced) EXCEPT
                    !.ok_ret = IF loaded.ok_ret.kind = "none"
                               THEN LoadModelsResult(loaded, load, advanced).ret
                               ELSE loaded.ok_ret]
    /\ UNCHANGED << mainVars, frame, limiter, enh >>

-----------------------------------------------------------------------------
(* security_intel.enhance_prediction called on its own, over the reports   *)
(* check_url_virustotal can hand it: the counts come from                  *)
(* last_analysis_stats, the reputation is the API's attribute as it is.    *)

MlProbs == {0, 100000, 500000, 900000, 1000000}
Reputations == {-1000, -100, -51, -21, 0, 100, 1000}
EngineTotals == {0, 10}

\* available reports with malicious_count + suspicious_count <= total_engines,
\* and the report of a URL VirusTotal has no data for
VtReports ==
    {[available |-> TRUE, malicious |-> m, suspicious |-> sc, total |-> tot,
      reputation |-> r] :
        m \in {0, 2, 5, 10}, sc \in {0, 2}, tot \in EngineTotals, r \in Reputations}
VtReportsInRange == {vt \in VtReports : vt.malicious + vt.suspicious <= vt.total}
NoReport == [available |-> FALSE, malicious |-> 0, suspicious |-> 0, total |-> 0,
             reputation |-> 0]

NoEnh == [op |-> "none", ml_pred |-> 0, ml_prob |-> 0, report |-> NoReport, adjusted_prob |-> 0,
          adjusted_pred |-> 0]

\* enhance_prediction(url, ml_prediction, ml_probability) returns
EnhancePrediction(mlPred, mlProb, vt) ==
    /\ enh' = [op |-> "enhance", ml_pred |-> mlPred, ml_prob |-> mlProb, report |-> vt,
               adjusted_prob |-> AdjustedProb(vt, mlProb),
               adjusted_pred |-> IF ~vt.available THEN mlPred
                                 ELSE IF AdjustedProb(vt, mlProb) > 500000 THEN 1 ELSE 0]
    /\ UNCHANGED << mainVars, frame, limiter, loaded >>


-----------------------------------------------------------------------------
Init ==
    /\ store = [h \in Hashes |-> NoRow]
    /\ now = 0
    /\ tz \in TzOffsets
    /\ storeOk = TRUE
    /\ cacheInst = FALSE
    /\ lastOp = NoOp
    /\ wpc = [w \in Workers |-> "idle"]
    /\ wop = [w \in Workers |-> NoOp]
    /\ wn = [w \in Workers |-> 0]
    /\ lastCommit = [u \in URLs |-> [check_type |-> "", result |-> PyNone, at |-> 0]]
    /\ issued = [u \in URLs |-> [t \in CheckTypes |-> {}]]
    /\ probeCalls = [u \in URLs |-> [p \in CheckTypes |-> 0]]
    /\ lastProbe = NoProbe
    /\ lastWrap = NoWrap
    /\ ext = ExtIdle
    /\ lastExt = NoExt
    /\ lastPred = NoPred
    /\ req = ReqIdle
    /\ modules = NoModules
    /\ frame = NoFrame
    /\ limiter = NoLimiter
    /\ loaded = NoLoaded
    /\ enh = NoEnh

\* the same, on a host whose local time is UTC
InitUtc == Init /\ tz = 0

NextCache ==
    \/ \E u \in URLs, t \in CacheTypes : Get(u, t)
    \/ \E u \in URLs, t \in CacheTypes, r \in Results : Set(u, t, r)
    \/ ClearExpired
    \/ ClearAll
    \/ Tick

SpecCache == Init /\ [][NextCache]_vars

NextProbes ==
    \E p \in CheckTypes, u \in ProbeURLs : \E env \in ProbeEnvs(p) : ProbeCall(p, u, env)

SpecProbes == InitUtc /\ [][NextProbes]_vars

NextExtract ==
    \/ \E batch \in Batches : ExtractBegin(batch)
    \/ \E dnsEnv \in LoopDnsEnvs, sslEnv \in LoopSslEnvs, contentEnv \in LoopContentEnvs :
           ExtractStep(dnsEnv, sslEnv, contentEnv)
    \/ ExtractFinish

SpecExtract == InitUtc /\ [][NextExtract]_vars

NextWrap ==
    \/ \E kind \in CheckTypes, u \in WorkerURLs : \E env \in WrapEnvs(kind) :
           CachedCheck(kind, u, env)
    \/ StoreDown
    \/ StoreUp
    \/ Tick

SpecWrap == InitUtc /\ [][NextWrap]_vars

NextEnsemble ==
    \/ \E w \in ConfigWeights : EditConfig(w)
    \/ \E resolves \in BOOLEAN : ImportUrlChecker(resolves)
    \/ NewEnsemblePredictor
    \/ \E u \in WorkerURLs, feat \in ExtractOutcomes, dt \in ModelOutcomes,
          xgb \in ModelOutcomes, useScan \in BOOLEAN, env \in ScanEnvs :
           PredictSingleUrl(u, feat, dt, xgb, useScan, env)
    \/ \E u \in WorkerURLs, urlKind \in UrlKinds, thr \in ThresholdArgs,
          useEnsemble \in BOOLEAN, checkOnline \in BOOLEAN :
           CheckUrlBegin(u, urlKind, thr, useEnsemble, checkOnline)
    \/ OnlineCheck
    \/ ValidateUrl
    \/ \E outcome \in ExtractOutcomes : ExtractStage(outcome)
    \/ \E load \in LoadOutcomes : LoadModels(load)
    \/ \E dt \in ScoreOutcomes, xgb \in ScoreOutcomes : ScoreModels(dt, xgb)
    \/ \E intel \in IntelEnvs : IntelStage(intel)
    \/ Verdict

SpecEnsemble == InitUtc /\ [][NextEnsemble]_vars

NextFrame ==
    \/ \E text \in UrlTexts, failAt \in FailPoints, dns \in DnsAnswers :
           ExtractFrame(text, failAt, dns)
    \/ \E caller \in {"check_url", "predict_single_url"}, names \in Registries :
           AlignFrame(caller, names)

SpecFrame == InitUtc /\ [][NextFrame]_vars

NextLimiter ==
    \/ RateLimit
    \/ ClockTick

SpecLimiter == InitUtc /\ [][NextLimiter]_vars

NextLoad ==
    \E load \in LoadOutcomes, advanced \in BOOLEAN : LoadModelsCall(load, advanced)

SpecLoad == InitUtc /\ [][NextLoad]_vars

NextEnhance ==
    \E mlPred \in {0, 1}, mlProb \in MlProbs, vt \in VtReportsInRange \cup {NoReport} :
        EnhancePrediction(mlPred, mlProb, vt)

SpecEnhance == InitUtc /\ [][NextEnhance]_vars

-----------------------------------------------------------------------------
(* FeatureCache shared by concurrent workers.  Every call opens its own     *)
(* connection; SQLite serialises the statements and commits.  A get is two  *)
(* steps: its SELECT, then its UPDATE or DELETE with the commit.  A set is  *)
(* one INSERT OR REPLACE with its commit.                                   *)

\* get, first step: the SELECT and the age test on the row it fetched; a get
\* that fetched no row returns None at once
WorkerGetSelect(w, u, t) ==
    LET row == SelectRow(store, u, t) IN
    /\ wpc[w] = "idle" /\ wn[w] < MaxOps
    /\ row.present /\ IsFresh(row, now, tz) => row.access_count < MaxAccess
    /\ wop' = [wop EXCEPT ![w] =
                  [op |-> "get", url |-> u, check_type |-> t, arg |-> PyNone,
                   ret |-> GetReturn(row, now, tz), found |-> row.present,
                   fresh |-> row.present /\ IsFresh(row, now, tz), deleted |-> 0]]
    /\ wpc' = [wpc EXCEPT ![w] = IF row.present THEN "selected" ELSE "idle"]
    /\ wn' = [wn EXCEPT ![w] = @ + 1]
    /\ UNCHANGED << store, now, tz, storeOk, cacheInst, lastOp, lastCommit, issued,
                    probeVars, predVars >>

\* get, second step: the UPDATE (row was fresh) or the DELETE (row was
\* expired), applied to the table as it is now, and the commit
WorkerGetWrite(w) ==
    /\ wpc[w] = "selected"
    /\ store' = IF wop[w].fresh
                THEN UpdateAccess(store, wop[w].url, wop[w].check_type, now)
                ELSE DeleteRow(store, wop[w].url, wop[w].check_type)
    /\ wpc' = [wpc EXCEPT ![w] = "idle"]
    /\ UNCHANGED << now, tz, storeOk, cacheInst, lastOp, wop, wn, lastCommit, issued,
                    probeVars, predVars >>

WorkerSet(w, u, t, r) ==
    /\ wpc[w] = "idle" /\ wn[w] < MaxOps
    /\ store' = InsertOrReplace(store, u, t, r, now)
    /\ wop' = [wop EXCEPT ![w] =
                  [op |-> "set", url |-> u, check_type |-> t, arg |-> r,
                   ret |-> PyNone, found |-> FALSE, fresh |-> FALSE, deleted |-> 0]]
    /\ wn' = [wn EXCEPT ![w] = @ + 1]
    /\ lastCommit' = [lastCommit EXCEPT ![u] = [check_type |-> t, result |-> r,
                                             at |-> now]]
    /\ issued' = [issued EXCEPT ![u][t] = @ \cup {r}]
    /\ UNCHANGED << now, tz, storeOk, cacheInst, lastOp, wpc, probeVars, predVars >>

NextWorkers ==
    \/ \E w \in Workers, u \in WorkerURLs, t \in CacheTypes : WorkerGetSelect(w, u, t)
    \/ \E w \in Workers : WorkerGetWrite(w)
    \/ \E w \in Workers, u \in WorkerURLs, t \in CacheTypes, r \in WorkerResults :
           WorkerSet(w, u, t, r)
    \/ Tick

SpecWorkers == Init /\ [][NextWorkers]_vars

-----------------------------------------------------------------------------
(* Claims about the FeatureCache operations *)

\* C1: a set(u, t, r) immediately followed by get(u, t), while less than the
\* TTL has elapsed since the set, returns exactly r.
C1_RoundTrip ==
    [][\A u \in URLs, t \in CacheTypes :
          ( /\ lastOp.op = "set" /\ lastOp.url = u /\ lastOp.check_type = t
            /\ Get(u, t)
            /\ now - SelectRow(store, u, t).created_at < TTL_HOURS )
          => lastOp'.ret = lastOp.arg]_vars

C3_SetFrame ==
    [][\A u \in URLs, t1 \in CacheTypes, r \in Results :
          Set(u, t1, r) =>
              \A t2 \in CacheTypes \ {t1} :
                  SelectRow(store', u, t2) = SelectRow(store, u, t2)]_vars

\* C4: across repeated extractions of a URL, with no time passing (so
\* nothing a cache held could have expired), each of the DNS, SSL and
\* content probes is invoked at most once for that URL.
C4_ProbeAtMostOnce ==
    \A u \in URLs : \A p \in {"dns", "ssl", "content"} : probeCalls[u][p] <= 1

\* C5: under every interleaving of the workers' sets and gets on a key,
\* each get returns None or the whole result of one of the sets issued for
\* that key, and once every worker is idle the table holds, for a URL whose
\* last committed set has not reached its TTL, the row of that set.
C5_LastWriterWins ==
    /\ \A w \in Workers :
          wop[w].op = "get" =>
              wop[w].ret \in {PyNone} \cup issued[wop[w].url][wop[w].check_type]
    /\ (\A w \in Workers : wpc[w] = "idle") =>
          \A u \in WorkerURLs :
              ( /\ lastCommit[u].check_type # ""
                /\ LocalNow(now, tz) - lastCommit[u].at < TTL_HOURS )
              => /\ SelectRow(store, u, lastCommit[u].check_type).present
                 /\ JsonLoads(SelectRow(store, u, lastCommit[u].check_type).result)
                        = lastCommit[u].result

-----------------------------------------------------------------------------
(* Claims about the cached_* wrappers *)

\* C6: when the store cannot be opened or queried, a cached_* wrapper still
\* runs its probe and returns the probe's result, and raises nothing.
C6_StoreDownFallback ==
    [][\A kind \in CheckTypes, u \in WorkerURLs :
          \A env \in WrapEnvs(kind) :
              (CachedCheck(kind, u, env) /\ ~storeOk)
              => /\ ~lastWrap'.raised
                 /\ lastWrap'.probed
                 /\ lastWrap'.ret = WrapProbe(kind, u, env).ret]_vars

-----------------------------------------------------------------------------
(* Claims about extract_features and the probes *)

DependentColumns ==
    {"has_ssl", "ssl_days_valid", "ssl_trusted", "http_status", "num_forms",
     "num_inputs", "has_password_field", "num_page_links", "num_scripts",
     "has_iframe", "has_js_redirect"}

C8_ProbesNeverRaise ==
    ( /\ lastProbe.probe # "none"
      /\ lastProbe.env \in ProbeFailures(lastProbe.probe) )
    => /\ ~lastProbe.raised
       /\ lastProbe.ret = ProbeDefault(lastProbe.probe)

\* the content probe has met a timeout on a URL with a host and returned
\* its eight zeros
C8_Witness ==
    /\ lastProbe.probe = "content"
    /\ lastProbe.url = HttpsUrl
    /\ lastProbe.env = "timeout"
    /\ ~lastProbe.raised
    /\ lastProbe.ret = << 0, 0, 0, 0, 0, 0, 0, 0 >>

-----------------------------------------------------------------------------
(* Claims about the ensemble *)

\* C9: predict_single_url produces a label only when at least 2 sources
\* actually scored the URL; with fewer, ensemble_prediction stays None and
\* the error is set.
C9_MinimumVotes ==
    lastPred.op = "predict_single_url" =>
        /\ lastPred.result.ensemble_prediction # "None"
              => Cardinality(lastPred.scored) >= 2
        /\ Cardinality(lastPred.scored) < 2
              => /\ lastPred.result.ensemble_prediction = "None"
                 /\ lastPred.result.error # ""

\* C10: when exactly one model's scoring step raised during a prediction
\* request, the request does not fail: predict_single_url marks that model
\* as failed and decides from the remaining votes, and check_url returns no
\* error result.
C10_GracefulDegradation ==
    Cardinality(lastPred.failed) = 1 =>
        IF lastPred.op = "check_url"
        THEN "error_type" \notin DOMAIN lastPred.result
        ELSE /\ lastPred.result.error \in {"", "Insufficient predictions for ensemble"}
             /\ \E m \in {"decision_tree", "xgboost"} : lastPred.result[m] = "error"

-----------------------------------------------------------------------------
(* Claims about configuration and check_url *)

\* C11: weights whose sum lies outside [0.99, 1.01] make validate_config
\* raise, and no predictor is initialized and produces a verdict with such
\* weights: url_checker is importable only with weights that validate, every
\* check_url verdict is computed with weights that validate, and every
\* label of EnsemblePredictor is produced under a configuration that
\* validates.
C11_WeightValidation ==
    /\ modules.checker = "ready" => ~ValidateConfigRaises(modules.weights)
    /\ (lastPred.op = "check_url" /\ "prediction" \in DOMAIN lastPred.result)
          => ~ValidateConfigRaises(modules.active)
    /\ (lastPred.op = "predict_single_url"
          /\ lastPred.result.ensemble_prediction # "None")
          => ~ValidateConfigRaises(modules.weights)

\* C12: in a check_url request with use_ensemble = True the combined
\* probability before any intelligence adjustment is
\* dt_prob * w_dt + xgb_prob * w_xgb, with w the ENSEMBLE_WEIGHTS in force
\* (weights are hundredths, hence the factor 100).
C12_WeightedCombination ==
    (lastPred.op = "check_url" /\ "MODELS_SCORED" \in Range(lastPred.run.trace)
       /\ lastPred.run.use_ensemble)
    => lastPred.run.ml_prob * 100 =
          lastPred.run.dt_prob * modules.active.dt
          + lastPred.run.xgb_prob * modules.active.xgb

C12_Witness ==
    /\ lastPred.op = "check_url"
    /\ lastPred.run.use_ensemble
    /\ modules.active = [dt |-> 31, xgb |-> 70]
    /\ lastPred.run.dt_prob = 100000
    /\ lastPred.run.xgb_prob = 900000
    /\ lastPred.run.ml_prob = 661000
    /\ "prediction" \in DOMAIN lastPred.result

\* C13: in every verdict of check_url the prediction is 'phishing' exactly
\* when the probability the verdict carries (4 decimals, after any
\* intelligence adjustment) is greater than the threshold of the request,
\* and 'legitimate' otherwise.
C13_ThresholdLabelling ==
    (lastPred.op = "check_url" /\ "prediction" \in DOMAIN lastPred.result)
    => /\ lastPred.result.prediction \in {"phishing", "legitimate"}
       /\ lastPred.result.prediction = "phishing"
            <=> lastPred.result.probability * 100 > lastPred.result.threshold

C15_TransparentIntel ==
    (lastPred.op = "check_url" /\ "prediction" \in DOMAIN lastPred.result)
    => /\ ~IntelReport(lastPred.run.intel).available
            => /\ lastPred.run.prob = lastPred.run.ml_prob
               /\ lastPred.result.probability = Round4(lastPred.run.ml_prob)
               /\ lastPred.result.prediction = PredictionName(lastPred.run.ml_pred)
               /\ lastPred.run.ml_pred =
                      Thresholded(lastPred.run.ml_prob, lastPred.run.threshold)
       /\ DOMAIN lastPred.result =
            {"url", "prediction", "probability", "risk_level", "confidence",
             "online_status", "models", "threshold", "processing_time"}
       /\ DOMAIN lastPred.result.models = {"decision_tree", "xgboost"}
       /\ \A m \in {"decision_tree", "xgboost"} :
            DOMAIN lastPred.result.models[m] = {"prediction", "probability"}

C15_Witness ==
    /\ lastPred.op = "check_url"
    /\ "prediction" \in DOMAIN lastPred.result
    /\ lastPred.run.intel = "timeout"
    /\ "intel_lookup" \in Range(lastPred.run.io)
    /\ lastPred.run.ml_prob = 661000
    /\ lastPred.result.probability = 6610

\* C16: a check_url request, running or finished, has passed its stages in
\* the order INIT, FEATURES_READY, MODELS_SCORED, optionally
\* INTEL_ADJUSTED, VERDICT and never backwards; the intelligence adjustment
\* comes only after both models have scored; the risk tier and the
\* confidence tier of a verdict are computed from the probability after any
\* adjustment; and no verdict is returned unless MODELS_SCORED was reached.
C16_StateMachine ==
    \A r \in {req, lastPred.run} :
       r.trace # << >> =>
          /\ r.trace[1] = "INIT"
          /\ \A i, j \in DOMAIN r.trace :
                i < j => StageRank(r.trace[i]) < StageRank(r.trace[j])
          /\ "MODELS_SCORED" \in Range(r.trace) => "FEATURES_READY" \in Range(r.trace)
          /\ "INTEL_ADJUSTED" \in Range(r.trace) => "MODELS_SCORED" \in Range(r.trace)
          /\ "VERDICT" \in Range(r.trace) =>
                /\ "MODELS_SCORED" \in Range(r.trace)
                /\ r = lastPred.run
                /\ r.prob = EnhancedProb(r.intel, r.ml_prob)
                /\ lastPred.result.risk_level = RiskLevel(r.prob)
                /\ lastPred.result.confidence = ConfidenceLevel(r.prob, r.threshold)
          /\ (r = lastPred.run /\ "prediction" \in DOMAIN lastPred.result)
                => "VERDICT" \in Range(r.trace)

C16_Witness ==
    /\ lastPred.op = "check_url"
    /\ lastPred.run.trace =
         << "INIT", "FEATURES_READY", "MODELS_SCORED", "INTEL_ADJUSTED", "VERDICT" >>
    /\ lastPred.run.ml_prob = 661000
    /\ lastPred.run.prob = 760500
    /\ lastPred.result.risk_level = "high"

\* C17: when feature extraction failed for the URL of a prediction request
\* (extract_features raised, or fell back to its four substitute columns),
\* the request ends with a reported error: check_url returns an error
\* record and no verdict, predict_single_url returns no label and an error;
\* nothing is computed from substitute features.
C17_ExtractionFailureFatal ==
    lastPred.run.features \in {"substitute", "failed"} =>
        IF lastPred.op = "check_url"
        THEN /\ "error" \in DOMAIN lastPred.result
             /\ "prediction" \notin DOMAIN lastPred.result
        ELSE /\ lastPred.result.ensemble_prediction = "None"
             /\ lastPred.result.error # ""
             /\ lastPred.scored = {}

\* C18: for a URL that fails validation check_url issues no network I/O (no
\* DNS lookup, no HTTP request, no probe) before it returns, and what it
\* returns is an error record of kind InvalidInput.
C18_InvalidUrlFailsFast ==
    (/\ lastPred.op = "check_url"
     /\ lastPred.run.kind # "valid"
     /\ ~(lastPred.run.kind = "malformed" /\ modules.checker = "fallback"))
    => /\ lastPred.run.io = << >>
       /\ "error_type" \in DOMAIN lastPred.result
       /\ lastPred.result.error_type = "InvalidInput"

\* C20: check_url never raises to its caller: whatever the input and
\* whichever step failed (online check, validation, extraction, model
\* loading, scoring), what it returns is either a complete verdict or an
\* error record with a message under 'error' and a kind under 'error_type',
\* one of ModelNotFound, InvalidInput, GeneralError.
C20_StructuredErrors ==
    lastPred.op = "check_url" =>
        \/ DOMAIN lastPred.result =
             {"url", "prediction", "probability", "risk_level", "confidence",
              "online_status", "models", "threshold", "processing_time"}
        \/ /\ {"error", "error_type"} \subseteq DOMAIN lastPred.result
           /\ "prediction" \notin DOMAIN lastPred.result
           /\ lastPred.result.error # ""
           /\ lastPred.result.error_type \in {"ModelNotFound", "InvalidInput", "GeneralError"}

C20_Witness ==
    /\ lastPred.op = "check_url"
    /\ lastPred.run.pc = "MODELS_LOADED"
    /\ lastPred.failed = {"xgb"}
    /\ "error_type" \in DOMAIN lastPred.result
    /\ lastPred.result.error_type = "GeneralError"
    /\ lastPred.result.error = "Prediction failed"

\* C19: when extract_features has ended on a batch, a failure local to one
\* URL has not aborted or degraded the rest: every other URL of the batch
\* has its row with the full network schema in the returned frame.
C19_BatchIsolation ==
    ext.pc \in {"done", "fallback", "raised"} =>
        \A i \in 1..Len(ext.batch) :
            ext.batch[i] \in URLs =>
                /\ i \in DOMAIN ext.feats
                /\ DOMAIN ext.feats[i] = DOMAIN ZeroNet
                /\ ext.pc = "done"

-----------------------------------------------------------------------------
(* Claims about frames, the cache's bookkeeping and the remaining helpers *)

\* C21: when a list of trained feature names is in force, the vector handed
\* to the classifiers has exactly the names of the list, in the order of the
\* list: a name the extractor's frame has carries the frame's value, a name
\* it lacks carries 0, and no other column of the frame is passed on.
C21_SchemaAlignment ==
    (frame.op \in {"check_url", "predict_single_url"} /\ frame.names # << >>)
    => /\ ColNames(frame.vector) = frame.names
       /\ \A i \in DOMAIN frame.names :
             frame.vector[i].val =
                 IF HasCol(frame.cols, frame.names[i])
                 THEN ColVal(frame.cols, frame.names[i]) ELSE Num(0)

C21_Witness ==
    /\ frame.op = "check_url"
    /\ frame.failAt = "ratios"
    /\ frame.names = << "url_length", "num_dots", "is_https", "has_dns",
                        "domain_age_days" >>
    /\ ColNames(frame.vector) = frame.names
    /\ ~HasCol(frame.cols, "has_dns")
    /\ frame.vector[4].val = Num(0)
    /\ frame.vector[1].val = Num(17)

\* C22: in every frame extract_features returns, every column other than
\* url and label holds a number (no string, no NaN, no None), on the normal
\* path and on the path through the except branch.
C22_NumericOnly ==
    frame.op = "extract" =>
        \A i \in DOMAIN frame.cols :
            frame.cols[i].name \notin {"url", "label"} => frame.cols[i].val.kind = "num"

\* C23: a get that hits adds exactly 1 to the entry's access_count, sets its
\* accessed_at to the current time and leaves its result and created_at as
\* they were; a set starts the entry at access_count 1; and no other step
\* changes the access_count of an entry that stays in the table, so the
\* count is 1 plus the hits since the last set.
C23_HitAccounting ==
    [][\A u \in URLs, t \in CacheTypes :
          LET before == SelectRow(store, u, t)
              after == SelectRow(store', u, t)
              hit == Get(u, t) /\ before.present /\ IsFresh(before, now, tz)
          IN  /\ hit => after = [before EXCEPT !.access_count = @ + 1,
                                               !.accessed_at = now]
              /\ (\E r \in Results : Set(u, t, r)) => after.access_count = 1
              /\ (before.present /\ after.present /\ ~hit
                    /\ ~(\E r \in Results : Set(u, t, r)))
                 => after.access_count = before.access_count]_vars

\* an entry set at hour 0 has been hit at hour 12: read once more, and its
\* created_at has not moved
C23_Witness ==
    /\ lastOp.op = "get" /\ lastOp.fresh
    /\ SelectRow(store, lastOp.url, lastOp.check_type).access_count = 2
    /\ SelectRow(store, lastOp.url, lastOp.check_type).created_at = 0
    /\ SelectRow(store, lastOp.url, lastOp.check_type).accessed_at = 12

\* C24: clear_expired() deletes exactly the rows whose computed age is at
\* least the TTL (the rows a get at the same instant treats as a miss),
\* leaves every other row unchanged, and returns the number of rows it
\* deleted.
C24_ClearExpiredExact ==
    [][ClearExpired =>
          /\ \A h \in Hashes :
                store[h].present =>
                    IF IsFresh(store[h], now, tz)
                    THEN store'[h] = store[h]
                    ELSE store'[h] = NoRow
          /\ lastOp'.deleted =
                Cardinality({h \in Hashes : store[h].present /\ ~store'[h].present})]_vars

\* the lifetime the comments of cached_whois_check name for a WHOIS entry:
\* 7 days, in hours
WHOIS_TTL_HOURS == 168

\* C25: cached_whois_check, with a usable store, serves the cached WHOIS
\* result without running the probe while the entry is less than 7 days old.
C25_WhoisLongerTtl ==
    [][\A u \in WorkerURLs, env \in WrapEnvs("whois") :
          ( /\ CachedCheck("whois", u, env)
            /\ storeOk
            /\ SelectRow(store, u, "whois").present
            /\ AgeHours(SelectRow(store, u, "whois"), now, tz) < WHOIS_TTL_HOURS )
          => /\ lastWrap'.hit
             /\ ~lastWrap'.probed]_vars

\* C26: among the requests _rate_limit has let through, no 60-second
\* interval holds more than 4.
C26_RateLimit ==
    \A i \in DOMAIN limiter.sent :
        Cardinality({j \in DOMAIN limiter.sent :
                        /\ limiter.sent[i] <= limiter.sent[j]
                        /\ limiter.sent[j] < limiter.sent[i] + RATE_WINDOW})
            <= RATE_LIMIT

\* C27: once a load_models() call has returned, every later call returns
\* the same model objects and feature names and does not read the model
\* files from disk, whether or not a feature-name list exists.
C27_ModelCaching ==
    [][\A load \in LoadOutcomes, advanced \in BOOLEAN :
          (LoadModelsCall(load, advanced) /\ loaded.ok_ret.kind = "return")
          => /\ ~loaded'.read_disk
             /\ loaded'.ret = loaded.ok_ret]_vars

\* C28: the DELETE of a get that has read an expired (u, t) row never
\* removes a row a set(u, t, r) has committed since that read: a row that
\* is within its TTL when the DELETE runs is still in the table after it.
C28_NoStaleDelete ==
    [][\A w \in Workers :
          LET row == SelectRow(store, wop[w].url, wop[w].check_type) IN
          ( /\ WorkerGetWrite(w)
            /\ ~wop[w].fresh
            /\ row.present /\ IsFresh(row, now, tz) )
          => SelectRow(store', wop[w].url, wop[w].check_type) = row]_vars

\* C29: for an ml_probability in [0, 1] and an available report with
\* malicious_count + suspicious_count <= total_engines, whatever its
\* reputation, the probability enhance_prediction returns is within [0, 1].
C29_AdjustedProbInRange ==
    (enh.op = "enhance" /\ enh.report.available)
    => (0 <= enh.adjusted_prob /\ enh.adjusted_prob <= 1000000)

\* C30: for every UTC offset of the host, the age get and clear_expired
\* compute for an entry is the time elapsed since its set: a get finds the
\* entry fresh exactly while less than the TTL has elapsed, and
\* clear_expired keeps every entry set less than the TTL ago.
C30_ClockConsistency ==
    [][/\ \A u \in URLs, t \in CacheTypes :
             LET row == SelectRow(store, u, t) IN
             (Get(u, t) /\ row.present)
             => /\ AgeHours(row, now, tz) = now - row.created_at
                /\ lastOp'.fresh <=> (now - row.created_at < TTL_HOURS)
       /\ ClearExpired =>
             \A h \in Hashes :
                 (store[h].present /\ now - store[h].created_at < TTL_HOURS)
                 => store'[h] = store[h]]_vars

====
